---- MODULE Spec2Model ----
(***************************************************************************)
(* A model of ganttpy/gantt.py: the Task record and the gantt() chart      *)
(* builder.                                                                *)
(*                                                                         *)
(* Time.  A pandas Timestamp is modelled as the number of whole hours      *)
(* since 2024-01-01 00:00, a Timedelta as a (possibly negative) number of  *)
(* hours.  A date string is the tuple <<m, d, h>>, read "2024-mm-dd        *)
(* hh:00"; a tuple that names no calendar date is a string that            *)
(* pandas.to_datetime() rejects.  Python's None is <<>> where the          *)
(* argument is a date string or a number and the string "<None>" where it  *)
(* is a string.  A duration in days is the rational <<num, den>>.          *)
(*                                                                         *)
(* Arguments of gantt().  tasks, order, begin_date and show_durations are  *)
(* bound by Call.  date_freq, date_format, fname and return_fig are each   *)
(* read by exactly one line of the function; the action of that line draws *)
(* the value.  figsize, figtitle, date_rotation, fontsize and              *)
(* duration_textcolor only style the drawing and are left out.             *)
(***************************************************************************)
EXTENDS Integers, Sequences, FiniteSets, TLC

(* Largest length of the task list the caller builds. *)
MaxLen == 2

VARIABLES
    callerTasks,    \* the caller's list object, as the caller sees it
    raised,         \* the exception that reached the caller last, "" if none
    pc,             \* "caller", or the gantt() statement to run next, or "done"
    tasks,          \* gantt's local name `tasks`
    order,          \* argument order
    begin_arg,      \* argument begin_date as passed
    show_durations, \* argument show_durations
    begin_date,     \* local begin_date after lines 110-113 (a Timestamp)
    end_date,       \* local end_date (a Timestamp)
    idx,            \* loop counter of line 121
    task_idxs,      \* local list task_idxs
    task_labels,    \* local list task_labels
    time_ticks,     \* local time_ticks
    fig,            \* the matplotlib figure and its axes
    files,          \* paths of the image files written
    result          \* what the call returned: "pending", "None" or "fig, ax"

vars == <<callerTasks, raised, pc, tasks, order, begin_arg, show_durations,
          begin_date, end_date, idx, task_idxs, task_labels, time_ticks,
          fig, files, result>>

locals == <<tasks, order, begin_arg, show_durations, begin_date, end_date,
            idx, task_idxs, task_labels, time_ticks>>

-----------------------------------------------------------------------------
(* Python values *)

PyNone == "<None>"
NoneT == <<>>
DEFAULT_COLOR == "tab:blue"

(* bool(x) of a string-valued or None argument *)
Truthy(x) == x # PyNone /\ x # ""

-----------------------------------------------------------------------------
(* pandas: dates and time spans *)

DaysInMonth == <<31, 29, 31, 30, 31, 30, 31, 31, 30, 31, 30, 31>>

RECURSIVE DaysBefore(_)
DaysBefore(m) == IF m = 1 THEN 0 ELSE DaysBefore(m - 1) + DaysInMonth[m - 1]

(* whether pandas.to_datetime(s) returns a Timestamp *)
Parseable(s) ==
    /\ Len(s) = 3
    /\ s[1] \in 1..12
    /\ s[2] \in 1..DaysInMonth[s[1]]
    /\ s[3] \in 0..23

(* pandas.to_datetime(s) of a parseable date string *)
to_datetime(s) == (DaysBefore(s[1]) + s[2] - 1) * 24 + s[3]

(* pandas.Timedelta(f'{duration} days') *)
Timedelta(duration) == (duration[1] * 24) \div duration[2]

(* days() cutting the fraction off toward zero, as int(td / 1 day) does *)
daysTowardZero(td) == IF td >= 0 THEN td \div 24 ELSE -((-td) \div 24)

(* days() rounding to the nearest day, as round(td / 1 day) does *)
daysNearest(td) == (td + 12) \div 24

(* Timedelta.days: the days component, rounded toward minus infinity *)
days(td) == td \div 24

(* the month and the day of the month of a Timestamp of 2024 *)
MonthOf(t) == CHOOSE m \in 1..12 :
    days(t) \in DaysBefore(m)..(DaysBefore(m) + DaysInMonth[m] - 1)
DayOf(t) == days(t) - DaysBefore(MonthOf(t)) + 1

MonthAbbr == <<"Jan", "Feb", "Mar", "Apr", "May", "Jun",
               "Jul", "Aug", "Sep", "Oct", "Nov", "Dec">>

(* Timestamp.strftime(date_format) for the formats of DateFormats *)
strftime(t, date_format) ==
    IF date_format = "%b %Y" THEN <<MonthAbbr[MonthOf(t)], 2024>>
    ELSE <<MonthOf(t), DayOf(t)>>

(* the step in hours of a fixed-step frequency string; 0: not a frequency *)
FreqStep(date_freq) ==
    IF date_freq = "D" THEN 24 ELSE IF date_freq = "7D" THEN 7 * 24 ELSE 0

(* pandas.date_range(start, end, freq) for a fixed-step frequency *)
RECURSIVE date_range(_, _, _)
date_range(start, end, step) ==
    IF start > end THEN <<>>
    ELSE <<start>> \o date_range(start + step, end, step)

-----------------------------------------------------------------------------
(* class Task *)

(* whether Task.__init__ returns; else the exception it raises *)
TaskInitError(a) ==
    IF ~Parseable(a.start) THEN "DateParseError"
    ELSE IF a.finish # NoneT
         THEN IF Parseable(a.finish) THEN "" ELSE "DateParseError"
    ELSE IF a.duration # NoneT THEN ""
    ELSE "ValueError: Must specify either task finish date or duration (in days)"

(* Task.__init__ that keeps start as finish when a duration is given *)
TaskInitFinishNotDerived(a) ==
    LET start == to_datetime(a.start) IN
    IF a.finish # NoneT
    THEN [cls |-> "Task", name |-> a.name, start |-> start,
          finish |-> to_datetime(a.finish),
          duration |-> to_datetime(a.finish) - start,
          color |-> IF Truthy(a.color) THEN a.color ELSE DEFAULT_COLOR]
    ELSE [cls |-> "Task", name |-> a.name, start |-> start,
          finish |-> start,
          duration |-> Timedelta(a.duration),
          color |-> IF Truthy(a.color) THEN a.color ELSE DEFAULT_COLOR]

(* the object Task.__init__ builds *)
TaskInit(a) ==
    LET start == to_datetime(a.start) IN
    IF a.finish # NoneT
    THEN [cls |-> "Task", name |-> a.name, start |-> start,
          finish |-> to_datetime(a.finish),
          duration |-> to_datetime(a.finish) - start,
          color |-> IF Truthy(a.color) THEN a.color ELSE DEFAULT_COLOR]
    ELSE [cls |-> "Task", name |-> a.name, start |-> start,
          finish |-> start + Timedelta(a.duration),
          duration |-> Timedelta(a.duration),
          color |-> IF Truthy(a.color) THEN a.color ELSE DEFAULT_COLOR]

isinstance_Task(e) == e.cls = "Task"

-----------------------------------------------------------------------------
(* builtins *)

(* the list itself in place of reversed(tasks) *)
NotReversed(s) == s

Reversed(s) == [i \in 1..Len(s) |-> s[Len(s) + 1 - i]]

(* an insertion that puts x before the elements of equal key: not stable *)
RECURSIVE InsertBeforeEqual(_, _)
InsertBeforeEqual(s, x) ==
    IF s = <<>> THEN <<x>>
    ELSE IF x.start <= s[1].start THEN <<x>> \o s
    ELSE <<s[1]>> \o InsertBeforeEqual(Tail(s), x)

(* list.insert keeping ascending keys: x goes after every element whose   *)
(* key is not greater, as a stable sort places it                         *)
RECURSIVE InsertByStart(_, _)
InsertByStart(s, x) ==
    IF s = <<>> THEN <<x>>
    ELSE IF x.start < s[1].start THEN <<x>> \o s
    ELSE <<s[1]>> \o InsertByStart(Tail(s), x)

(* sorted(tasks, key=lambda task: task.start): a new list, stable *)
RECURSIVE sorted(_)
sorted(s) ==
    IF s = <<>> THEN <<>>
    ELSE InsertByStart(sorted(SubSeq(s, 1, Len(s) - 1)), s[Len(s)])

MinStart(ts) ==
    CHOOSE m \in {ts[i].start : i \in 1..Len(ts)} :
        \A i \in 1..Len(ts) : m <= ts[i].start

(* the finish of the last task in place of the greatest *)
LastFinish(ts) == ts[Len(ts)].finish

MaxFinish(ts) ==
    CHOOSE m \in {ts[i].finish : i \in 1..Len(ts)} :
        \A i \in 1..Len(ts) : m >= ts[i].finish

-----------------------------------------------------------------------------
(* inputs *)

Jan1 == <<1, 1, 0>>
Jan1Noon == <<1, 1, 12>>
Jan2 == <<1, 2, 0>>
Jan2Noon == <<1, 2, 12>>
Jan3 == <<1, 3, 0>>
Jan5 == <<1, 5, 0>>
Feb1 == <<2, 1, 0>>
Feb10 == <<2, 10, 0>>
NotADate == <<13, 1, 0>>

Arg(name, start, finish, duration, color) ==
    [name |-> name, start |-> start, finish |-> finish,
     duration |-> duration, color |-> color]

(* argument lists of Task(...) the caller uses *)
TaskArgs ==
    { Arg("A", Feb1, Feb10, NoneT, PyNone),
      Arg("B", Jan1, Jan5, NoneT, PyNone),
      Arg("A", Jan1, NoneT, <<5, 1>>, PyNone),
      Arg("C", Jan1Noon, Jan3, NoneT, PyNone),
      Arg("B", Jan1, NoneT, <<1, 2>>, "tab:red"),
      Arg("C", Jan2, Jan1Noon, NoneT, ""),
      Arg("A", Jan1Noon, NoneT, <<-3, 2>>, PyNone),
      Arg("B", Jan2, Jan3, <<7, 1>>, "tab:red"),
      Arg("C", Jan1, NoneT, NoneT, PyNone),
      Arg("C", NotADate, Jan3, NoneT, PyNone),
      Arg("C", Jan1, NotADate, NoneT, PyNone) }

(* a list entry that is no Task *)
NonTask == [cls |-> "str", value |-> "A"]

Orders == {"start", "listed", "time", "name"}
BeginDates == {NoneT, Jan1Noon, Jan2Noon, NotADate}
DateFreqs == {"D", "7D", "bogus"}
DateFormats == {"%b %Y", "%m-%d", PyNone}
FileNames == {PyNone, "chart.png", "/missing/chart.png"}
(* the paths the process can write *)
Writable == {"chart.png"}

-----------------------------------------------------------------------------
(* state *)

NoFig ==
    [created |-> FALSE, bars |-> <<>>, texts |-> <<>>, yticks |-> <<>>,
     yticklabels |-> <<>>, xlim |-> <<>>, xticks |-> <<>>,
     xticklabels |-> <<>>, grid |-> FALSE]

Init ==
    /\ callerTasks = <<>>
    /\ raised = ""
    /\ pc = "caller"
    /\ tasks = <<>>
    /\ order = "start"
    /\ begin_arg = NoneT
    /\ show_durations = FALSE
    /\ begin_date = 0
    /\ end_date = 0
    /\ idx = 0
    /\ task_idxs = <<>>
    /\ task_labels = <<>>
    /\ time_ticks = <<>>
    /\ fig = NoFig
    /\ files = {}
    /\ result = "pending"

(* the caller evaluates Task(...) and appends the object to its list *)
NewTask(a) ==
    /\ pc = "caller"
    /\ Len(callerTasks) < MaxLen
    /\ IF TaskInitError(a) = ""
       THEN /\ callerTasks' = Append(callerTasks, TaskInit(a))
            /\ raised' = ""
       ELSE /\ raised' = TaskInitError(a)
            /\ UNCHANGED callerTasks
    /\ UNCHANGED <<pc, locals, fig, files, result>>

(* the caller appends something that is no Task *)
AddOther ==
    /\ pc = "caller"
    /\ Len(callerTasks) < MaxLen
    /\ callerTasks' = Append(callerTasks, NonTask)
    /\ raised' = ""
    /\ UNCHANGED <<pc, locals, fig, files, result>>

(* gantt(tasks, order=o, begin_date=b, show_durations=sd, ...) is entered *)
Call(o, b, sd) ==
    /\ pc = "caller"
    /\ pc' = "validate"
    /\ tasks' = callerTasks
    /\ order' = o
    /\ begin_arg' = b
    /\ show_durations' = sd
    /\ raised' = ""
    /\ UNCHANGED <<callerTasks, begin_date, end_date, idx, task_idxs,
                   task_labels, time_ticks, fig, files, result>>

(* raise: the call ends with the exception e *)
Raise(e) ==
    /\ pc' = "done"
    /\ raised' = e

(* lines 94-98 looking at the first entry only *)
ValidateFirstEntry ==
    /\ pc = "validate"
    /\ IF tasks = <<>>
       THEN Raise("ValueError: Task list is empty")
       ELSE IF ~isinstance_Task(tasks[1])
       THEN Raise("ValueError: Entries are not all Task objects")
       ELSE pc' = "order" /\ UNCHANGED raised
    /\ UNCHANGED <<callerTasks, locals, fig, files, result>>

(* lines 94-98 *)
Validate ==
    /\ pc = "validate"
    /\ IF tasks = <<>>
       THEN Raise("ValueError: Task list is empty")
       ELSE IF \E i \in 1..Len(tasks) : ~isinstance_Task(tasks[i])
       THEN Raise("ValueError: Entries are not all Task objects")
       ELSE pc' = "order" /\ UNCHANGED raised
    /\ UNCHANGED <<callerTasks, locals, fig, files, result>>

(* lines 101-106 taking "time" as another name of "start" *)
OrderWithTimeAlias ==
    /\ pc = "order"
    /\ IF order \in {"start", "time"}
       THEN /\ tasks' = sorted(tasks)
            /\ pc' = "bounds"
            /\ UNCHANGED raised
       ELSE IF order = "listed"
       THEN /\ pc' = "bounds"
            /\ UNCHANGED <<tasks, raised>>
       ELSE /\ Raise("ValueError: Order must be either 'start' or 'listed'")
            /\ UNCHANGED tasks
    /\ UNCHANGED <<callerTasks, order, begin_arg, show_durations, begin_date,
                   end_date, idx, task_idxs, task_labels, time_ticks, fig,
                   files, result>>

(* lines 101-106 sorting with tasks.sort(), in the caller's list *)
OrderInPlace ==
    /\ pc = "order"
    /\ IF order = "start"
       THEN /\ tasks' = sorted(tasks)
            /\ callerTasks' = sorted(tasks)
            /\ pc' = "bounds"
            /\ UNCHANGED raised
       ELSE IF order = "listed"
       THEN /\ pc' = "bounds"
            /\ UNCHANGED <<callerTasks, tasks, raised>>
       ELSE /\ Raise("ValueError: Order must be either 'start' or 'listed'")
            /\ UNCHANGED <<callerTasks, tasks>>
    /\ UNCHANGED <<order, begin_arg, show_durations, begin_date,
                   end_date, idx, task_idxs, task_labels, time_ticks, fig,
                   files, result>>

(* lines 101-106 *)
Order ==
    /\ pc = "order"
    /\ IF order = "start"
       THEN /\ tasks' = sorted(tasks)
            /\ pc' = "bounds"
            /\ UNCHANGED raised
       ELSE IF order = "listed"
       THEN /\ pc' = "bounds"
            /\ UNCHANGED <<tasks, raised>>
       ELSE /\ Raise("ValueError: Order must be either 'start' or 'listed'")
            /\ UNCHANGED tasks
    /\ UNCHANGED <<callerTasks, order, begin_arg, show_durations, begin_date,
                   end_date, idx, task_idxs, task_labels, time_ticks, fig,
                   files, result>>

(* lines 110-114 *)
Bounds ==
    /\ pc = "bounds"
    /\ IF begin_arg = NoneT
       THEN /\ begin_date' = MinStart(tasks)
            /\ end_date' = MaxFinish(tasks)
            /\ pc' = "subplots"
            /\ UNCHANGED raised
       ELSE IF Parseable(begin_arg)
       THEN /\ begin_date' = to_datetime(begin_arg)
            /\ end_date' = MaxFinish(tasks)
            /\ pc' = "subplots"
            /\ UNCHANGED raised
       ELSE /\ Raise("DateParseError")
            /\ UNCHANGED <<begin_date, end_date>>
    /\ UNCHANGED <<callerTasks, tasks, order, begin_arg, show_durations, idx,
                   task_idxs, task_labels, time_ticks, fig, files, result>>

(* lines 117-119 *)
Subplots ==
    /\ pc = "subplots"
    /\ fig' = [NoFig EXCEPT !.created = TRUE]
    /\ task_idxs' = <<>>
    /\ task_labels' = <<>>
    /\ idx' = 0
    /\ pc' = "bars"
    /\ UNCHANGED <<callerTasks, raised, tasks, order, begin_arg,
                   show_durations, begin_date, end_date, time_ticks, files,
                   result>>

(* the bar ax.barh() adds for task at row y, lines 122-130 *)
Bar(task, y, begin) ==
    [y |-> y, left |-> days(task.start - begin),
     width |-> days(task.duration), color |-> task.color]

(* the text ax.text() adds, lines 136-143; x is days_to_start + 0.5, kept *)
(* as the number of half days                                             *)
DurationText(task, y, begin) ==
    [x2 |-> 2 * days(task.start - begin) + 1, y |-> y,
     s |-> <<days(task.duration), "days">>]

(* one iteration of the loop of line 121, lines 121-143 *)
DrawBar ==
    /\ pc = "bars"
    /\ idx < Len(tasks)
    /\ LET task == Reversed(tasks)[idx + 1] IN
        /\ fig' = [fig EXCEPT
                !.bars = Append(@, Bar(task, idx, begin_date)),
                !.texts = IF show_durations
                          THEN Append(@, DurationText(task, idx, begin_date))
                          ELSE @]
        /\ task_idxs' = Append(task_idxs, idx)
        /\ task_labels' = Append(task_labels, task.name)
    /\ idx' = idx + 1
    /\ UNCHANGED <<callerTasks, raised, pc, tasks, order, begin_arg,
                   show_durations, begin_date, end_date, time_ticks, files,
                   result>>

(* the loop ends; lines 146-151 *)
AxisLabels ==
    /\ pc = "bars"
    /\ idx = Len(tasks)
    /\ fig' = [fig EXCEPT !.yticks = task_idxs,
                          !.yticklabels = task_labels,
                          !.xlim = <<0, days(end_date - begin_date)>>]
    /\ pc' = "ticks"
    /\ UNCHANGED <<callerTasks, raised, locals, files, result>>

(* lines 152-153 *)
Ticks(date_freq) ==
    /\ pc = "ticks"
    /\ IF FreqStep(date_freq) = 0
       THEN /\ Raise("ValueError: Invalid frequency")
            /\ UNCHANGED <<time_ticks, fig>>
       ELSE /\ time_ticks' = date_range(begin_date, end_date,
                                        FreqStep(date_freq))
            /\ fig' = [fig EXCEPT !.xticks =
                    [i \in 1..Len(time_ticks') |->
                        days(time_ticks'[i] - begin_date)]]
            /\ pc' = "ticklabels"
            /\ UNCHANGED raised
    /\ UNCHANGED <<callerTasks, tasks, order, begin_arg, show_durations,
                   begin_date, end_date, idx, task_idxs, task_labels, files,
                   result>>

(* lines 154-158 *)
TickLabels(date_format) ==
    /\ pc = "ticklabels"
    /\ IF date_format = PyNone /\ time_ticks # <<>>
       THEN /\ Raise("TypeError: strftime() argument must be str")
            /\ UNCHANGED fig
       ELSE /\ fig' = [fig EXCEPT
                    !.xticklabels = [i \in 1..Len(time_ticks) |->
                                        strftime(time_ticks[i], date_format)],
                    !.grid = TRUE]
            /\ pc' = "save"
            /\ UNCHANGED raised
    /\ UNCHANGED <<callerTasks, locals, files, result>>

(* lines 160-161 creating the file before the path is found unwritable *)
SaveFigCreatesFirst(fname) ==
    /\ pc = "save"
    /\ IF ~Truthy(fname)
       THEN /\ pc' = "return"
            /\ UNCHANGED <<raised, files>>
       ELSE /\ files' = files \cup {fname}
            /\ IF fname \in Writable
               THEN pc' = "return" /\ UNCHANGED raised
               ELSE Raise("FileNotFoundError")
    /\ UNCHANGED <<callerTasks, locals, fig, result>>

(* lines 160-161 *)
SaveFig(fname) ==
    /\ pc = "save"
    /\ IF ~Truthy(fname)
       THEN /\ pc' = "return"
            /\ UNCHANGED <<raised, files>>
       ELSE IF fname \in Writable
       THEN /\ files' = files \cup {fname}
            /\ pc' = "return"
            /\ UNCHANGED raised
       ELSE /\ Raise("FileNotFoundError")
            /\ UNCHANGED files
    /\ UNCHANGED <<callerTasks, locals, fig, result>>

(* lines 162-163 *)
Return(return_fig) ==
    /\ pc = "return"
    /\ result' = IF return_fig THEN "fig, ax" ELSE "None"
    /\ pc' = "done"
    /\ UNCHANGED <<callerTasks, raised, locals, fig, files>>

Next ==
    \/ \E a \in TaskArgs : NewTask(a)
    \/ AddOther
    \/ \E o \in Orders, b \in BeginDates, sd \in BOOLEAN : Call(o, b, sd)
    \/ Validate
    \/ Order
    \/ Bounds
    \/ Subplots
    \/ DrawBar
    \/ AxisLabels
    \/ \E date_freq \in DateFreqs : Ticks(date_freq)
    \/ \E date_format \in DateFormats : TickLabels(date_format)
    \/ \E fname \in FileNames : SaveFig(fname)
    \/ \E return_fig \in BOOLEAN : Return(return_fig)

Spec == Init /\ [][Next]_vars

-----------------------------------------------------------------------------
(* vocabulary of the properties *)

EmptyError == "ValueError: Task list is empty"
EntryError == "ValueError: Entries are not all Task objects"
OrderError == "ValueError: Order must be either 'start' or 'listed'"

(* the caller's list is a non-empty list of Task objects *)
InputValid ==
    /\ callerTasks # <<>>
    /\ \A i \in 1..Len(callerTasks) : callerTasks[i].cls = "Task"

(* the statements of lines 94-98, resp. 94-106, have run *)
Validated == pc \notin {"caller", "validate"}
Ordered == Validated /\ InputValid /\ pc # "order"

(* the call failed, resp. returned *)
Failed == pc = "done" /\ raised # ""
Returned == pc = "done" /\ raised = ""

(* the axes carry the task labels and the limits of line 151 *)
Drawn == fig.xlim # <<>>

Ascending(ts) == \A i \in 1..(Len(ts) - 1) : ts[i].start <= ts[i + 1].start

(* d is the whole number of days in the time span td, rounded down *)
IsFloorDays(d, td) == 24 * d <= td /\ td < 24 * (d + 1)

(* the whole number of days in td, the fraction cut off toward zero *)
TruncDays(td) == IF td >= 0 THEN td \div 24 ELSE -((-td) \div 24)

(* the reference date the arguments ask for *)
IsReference(t) ==
    IF begin_arg # NoneT THEN t = to_datetime(begin_arg)
    ELSE /\ \E i \in 1..Len(callerTasks) : t = callerTasks[i].start
         /\ \A i \in 1..Len(callerTasks) : t <= callerTasks[i].start

IsMaxFinish(t) ==
    /\ \E i \in 1..Len(callerTasks) : t = callerTasks[i].finish
    /\ \A i \in 1..Len(callerTasks) : t >= callerTasks[i].finish

-----------------------------------------------------------------------------
(* C1 as claimed: order accepts "listed", "start" and "time"; "listed"     *)
(* keeps the input order, "start" and "time" sort ascending by start, and  *)
(* any other value fails with the ValueError of line 106.                  *)
C1_OrderAcceptsTime ==
    Ordered =>
        /\ order = "listed" => tasks = callerTasks /\ raised # OrderError
        /\ order \in {"start", "time"} =>
                Ascending(tasks) /\ raised # OrderError
        /\ order \notin {"listed", "start", "time"} =>
                pc = "done" /\ raised = OrderError

(* C1 amended: order accepts exactly "listed" and "start"; "listed" keeps  *)
(* the input order, "start" sorts ascending by start, and every other      *)
(* value, "time" included, fails with the ValueError of line 106.          *)
C1_OrderValues ==
    Ordered =>
        /\ order = "listed" => tasks = callerTasks /\ raised # OrderError
        /\ order = "start" => Ascending(tasks) /\ raised # OrderError
        /\ order \notin {"listed", "start"} =>
                pc = "done" /\ raised = OrderError /\ fig = NoFig

C1_Witness ==
    /\ InputValid
    /\ order = "time"
    /\ pc = "done"
    /\ raised = OrderError

(* C2 as claimed: every bar's left edge and width are the offset from the  *)
(* reference date and the duration in whole days, the fraction cut off     *)
(* toward zero, also when they are negative.                               *)
C2_BarsTruncateTowardZero ==
    \A k \in 1..Len(fig.bars) :
        LET task == tasks[Len(tasks) + 1 - k] IN
        /\ fig.bars[k].left = TruncDays(task.start - begin_date)
        /\ fig.bars[k].width = TruncDays(task.duration)

(* C2 amended: every bar's left edge and width are the offset from the     *)
(* reference date and the duration in whole days rounded down (toward      *)
(* minus infinity): the same as cutting the fraction off when they are not *)
(* negative, one day less when they are negative with a fraction.          *)
C2_BarsRoundDown ==
    \A k \in 1..Len(fig.bars) :
        LET task == tasks[Len(tasks) + 1 - k] IN
        /\ IsFloorDays(fig.bars[k].left, task.start - begin_date)
        /\ IsFloorDays(fig.bars[k].width, task.duration)

C2_Witness ==
    /\ Drawn
    /\ \E k \in 1..Len(fig.bars) :
        LET task == tasks[Len(tasks) + 1 - k] IN
        /\ task.start - begin_date = -12
        /\ fig.bars[k].left = -1
        /\ task.duration = -12
        /\ fig.bars[k].width = -1

(* C3 as claimed: whenever a gantt() call fails, no figure has been        *)
(* created or drawn on and no file has been written.                       *)
C3_FailureLeavesNothing ==
    Failed => fig = NoFig /\ files = {}

EarlyErrors == {EmptyError, EntryError, OrderError, "DateParseError"}

(* C3 amended: whenever a gantt() call fails, no file has been written and *)
(* nothing is returned.  An empty task list, a non-Task entry, an invalid  *)
(* order and an unparseable begin_date fail before the figure is created;  *)
(* an invalid tick frequency, an invalid date format and an unwritable     *)
(* path fail after the figure has been created and every bar drawn.        *)
C3_FailureWritesNothing ==
    Failed =>
        /\ files = {}
        /\ result = "pending"
        /\ raised \in EarlyErrors => fig = NoFig
        /\ raised \notin EarlyErrors =>
                fig.created /\ Len(fig.bars) = Len(callerTasks) /\ Drawn

C3_Witness ==
    /\ Failed
    /\ raised = "ValueError: Invalid frequency"
    /\ fig.created
    /\ fig.bars # <<>>
    /\ files = {}

(* all the ways to arrange n things: the bijections of 1..n *)
Perms(n) == {p \in [1..n -> 1..n] : \A i, j \in 1..n : p[i] = p[j] => i = j}

(* the tasks of ts that start at t, in the order of ts *)
StartingAt(ts, t) == SelectSeq(ts, LAMBDA x : x.start = t)

(* out is ts sorted ascending by start, ties in the order of ts *)
IsStableSort(ts, out) ==
    /\ Len(out) = Len(ts)
    /\ Ascending(out)
    /\ \A i \in 1..Len(ts) :
            StartingAt(out, ts[i].start) = StartingAt(ts, ts[i].start)

(* the rows of the chart read from the top are the tasks of rows: row i    *)
(* from the top has index n - i, the bar and the label of rows[i]          *)
RowsFromTop(rows) ==
    LET n == Len(rows) IN
    /\ Len(fig.bars) = n
    /\ Len(fig.yticks) = n
    /\ Len(fig.yticklabels) = n
    /\ \A i \in 1..n :
        /\ fig.bars[n + 1 - i] = Bar(rows[i], n - i, begin_date)
        /\ fig.yticks[n + 1 - i] = n - i
        /\ fig.yticklabels[n + 1 - i] = rows[i].name

(* C4: with order="start" the rows from the top are a permutation of the   *)
(* input tasks, ascending by start date, tasks of equal start in their     *)
(* input order.                                                            *)
C4_StartOrderIsStableSort ==
    (Drawn /\ order = "start") =>
        \E p \in Perms(Len(callerTasks)) :
            LET rows == [i \in 1..Len(callerTasks) |-> callerTasks[p[i]]] IN
            /\ IsStableSort(callerTasks, rows)
            /\ RowsFromTop(rows)

(* the example of the specification: [A from Feb 1, B from Jan 1] gives    *)
(* the rows [B, A] and A's bar 31 days from the reference date             *)
C4_Witness ==
    /\ Drawn
    /\ order = "start"
    /\ begin_arg = NoneT
    /\ callerTasks = <<TaskInit(Arg("A", Feb1, Feb10, NoneT, PyNone)),
                       TaskInit(Arg("B", Jan1, Jan5, NoneT, PyNone))>>
    /\ fig.yticklabels = <<"A", "B">>
    /\ fig.bars[1].left = 31

(* C5: with order="listed" the row indices are 0..n-1, each once, the task *)
(* at input position i (from 0) is drawn at row n-1-i, and the label of    *)
(* each row is the name of the task drawn there.                           *)
C5_ListedOrderTopDown ==
    (Drawn /\ order = "listed") =>
        /\ fig.yticks = [k \in 1..Len(callerTasks) |-> k - 1]
        /\ RowsFromTop(callerTasks)

C5_Witness ==
    /\ Drawn
    /\ order = "listed"
    /\ Len(callerTasks) = 2
    /\ callerTasks[1].name = "A"
    /\ callerTasks[2].name = "B"
    /\ callerTasks[1].start > callerTasks[2].start
    /\ fig.yticklabels = <<"B", "A">>
    /\ fig.bars[2].y = 1
    /\ fig.bars[2].left = 31

(* C6: the reference date is begin_date when given and else the least      *)
(* start of the input tasks, and the x axis runs from 0 to the whole days  *)
(* from the reference date to the greatest finish, whatever the order.     *)
C6_ReferenceAndExtent ==
    /\ pc \in {"subplots", "bars", "ticks", "ticklabels", "save", "return"}
            => IsReference(begin_date)
    /\ Drawn =>
        /\ IsReference(begin_date)
        /\ Len(fig.xlim) = 2
        /\ fig.xlim[1] = 0
        /\ \A t \in {callerTasks[i].finish : i \in 1..Len(callerTasks)} :
                IsMaxFinish(t) => IsFloorDays(fig.xlim[2], t - begin_date)

C6_Witness ==
    /\ Drawn
    /\ order = "listed"
    /\ begin_arg = NoneT
    /\ Len(callerTasks) = 2
    /\ callerTasks[1].start > callerTasks[2].start
    /\ callerTasks[1].finish > callerTasks[2].finish
    /\ begin_date = callerTasks[2].start
    /\ fig.xlim = <<0, 40>>

(* C7: every Task the caller holds satisfies finish = start + duration, in *)
(* every state before, during and after a gantt() call; a Task from        *)
(* 2024-01-01 of 5 days finishes on 2024-01-06.                            *)
C7_FinishIsStartPlusDuration ==
    \A i \in 1..Len(callerTasks) :
        callerTasks[i].cls = "Task" =>
            /\ callerTasks[i].finish =
                    callerTasks[i].start + callerTasks[i].duration
            /\ callerTasks[i].duration =
                    callerTasks[i].finish - callerTasks[i].start
            /\ (callerTasks[i].start = to_datetime(<<1, 1, 0>>)
                    /\ callerTasks[i].duration = 5 * 24)
                => callerTasks[i].finish = to_datetime(<<1, 6, 0>>)

C7_Witness ==
    /\ Returned
    /\ result = "None"
    /\ \E i \in 1..Len(callerTasks) :
        /\ callerTasks[i].start = to_datetime(<<1, 1, 0>>)
        /\ callerTasks[i].duration = 5 * 24
        /\ callerTasks[i].finish = to_datetime(<<1, 6, 0>>)
    /\ \E i \in 1..Len(callerTasks) :
        /\ callerTasks[i].duration = -36
        /\ callerTasks[i].finish = -24

(* C8: no step of a gantt() call changes the caller's list or a field of   *)
(* a Task in it, whether the call succeeds or fails.                       *)
C8_InputNeverMutated ==
    [][pc # "caller" => callerTasks' = callerTasks]_vars

C8_Witness ==
    /\ Returned
    /\ order = "start"
    /\ tasks # callerTasks
    /\ Ascending(tasks)
    /\ ~Ascending(callerTasks)

(* C9: gantt() fails with a ValueError when the list is empty or any entry *)
(* at any position is no Task, whatever the other arguments; a non-empty   *)
(* list of Tasks passes the check.                                         *)
C9_InputValidation ==
    Validated =>
        /\ callerTasks = <<>> => pc = "done" /\ raised = EmptyError
        /\ (\E i \in 1..Len(callerTasks) : callerTasks[i].cls # "Task")
                => pc = "done" /\ raised = EntryError
        /\ InputValid => raised \notin {EmptyError, EntryError}
        /\ raised \in {EmptyError, EntryError} => fig = NoFig

C9_Witness ==
    /\ Len(callerTasks) = 2
    /\ callerTasks[1].cls = "Task"
    /\ callerTasks[2].cls # "Task"
    /\ order = "listed"
    /\ pc = "done"
    /\ raised = EntryError

(* C10: when begin_date is not given and no task has a negative duration,  *)
(* every bar lies inside the x axis: 0 <= left and left + width <= the     *)
(* upper limit.                                                            *)
C10_BarsInsideExtent ==
    (/\ Drawn
     /\ begin_arg = NoneT
     /\ \A i \in 1..Len(callerTasks) : callerTasks[i].duration >= 0) =>
        \A k \in 1..Len(fig.bars) :
            /\ 0 <= fig.bars[k].left
            /\ fig.bars[k].left + fig.bars[k].width <= fig.xlim[2]

(* the bar that ends at the greatest finish, its offset and its width each *)
(* losing a fraction of a day, ends one day short of the upper limit       *)
C10_Witness ==
    /\ Drawn
    /\ begin_arg = NoneT
    /\ \A i \in 1..Len(callerTasks) : callerTasks[i].duration >= 0
    /\ \E k \in 1..Len(fig.bars) :
        LET task == tasks[Len(tasks) + 1 - k] IN
        /\ (task.start - begin_date) % 24 # 0
        /\ task.duration % 24 # 0
        /\ task.finish = end_date
        /\ fig.bars[k].left + fig.bars[k].width = fig.xlim[2] - 1

(* the cases C10 excludes do occur: a bar left of 0 under a later          *)
(* begin_date, and a bar that ends left of 0 under a negative duration     *)
C10_OutsideWithBeginDate ==
    /\ Drawn
    /\ begin_arg # NoneT
    /\ \E k \in 1..Len(fig.bars) : fig.bars[k].left < 0

C10_OutsideWithNegativeDuration ==
    /\ Drawn
    /\ begin_arg = NoneT
    /\ \E k \in 1..Len(fig.bars) :
        /\ fig.bars[k].width < 0
        /\ fig.bars[k].left + fig.bars[k].width < 0

====
